---- MODULE Spec2Model ----
(***************************************************************************)
(* Model of the x1-tap-clock control core:                                 *)
(*   - X1State::from_buf, the decoder of the 24-byte input frame;          *)
(*   - X1Controller, the poll loop that diffs snapshots, dispatches events *)
(*     to the registered callbacks and flushes the LED buffer;             *)
(*   - MidiClock / run_clock, the clock thread and its command channel;    *)
(*   - TapTempo, the estimator of a tempo from tap timestamps.             *)
(* Spec is the controller (poll domain), SpecClock the clock domain,       *)
(* SpecTap the tap-tempo estimator.                                        *)
(***************************************************************************)
EXTENDS Integers, Sequences, FiniteSets, TLC

VARIABLES
    \* ---- X1Controller fields (x1_controller.rs:120-135)
    leds,              \* [u8; 32]
    leds_dirty,        \* bool
    last_state,        \* X1State
    initialized,       \* bool
    button_callback,   \* Option<closure>: "None", or the closure's kind
    encoder_callback,
    pot_callback,
    \* ---- observation of the controller (history, not program state)
    poll,              \* what the last operation on the controller did
    fl,                \* the last two flush_leds calls and the sets between them
    \* ---- MidiClock owner and channel (midi_clock.rs:15-19, 55)
    owner,             \* "alive", "joining" (inside drop), "dropped"
    chan,              \* commands in flight, oldest first
    senders,           \* number of live Sender handles
    \* ---- run_clock locals (midi_clock.rs:142-145) and its position
    bpm,
    tick_duration,
    running,
    next_tick,
    clk_now,           \* the local `now` of line 149
    pc,                \* "top", "recv_timeout", "recv", "closed"
    \* ---- environment and observation of the clock
    now,               \* the monotonic clock, in nanoseconds
    sent,              \* bytes handed to send_byte, oldest first, with outcome
    issued,            \* commands the owner has sent, oldest first
    anchor,            \* value next_tick was last set to by Start or SetBpm
    pulses,            \* pulses sent successfully since then
    last,              \* what the clock thread's last step did
    \* ---- TapTempo fields (tap_tempo.rs:14-18), times in milliseconds
    taps_needed,       \* usize
    reset_gap,         \* f64 seconds, held as whole milliseconds
    taps,              \* Vec<f64>, oldest first
    \* ---- observation of the TapTempo, since it was last made empty
    tap_times,         \* the timestamps passed to add_tap
    tap_rets           \* what each of these calls returned

ctlVars == <<leds, leds_dirty, last_state, initialized, button_callback,
             encoder_callback, pot_callback, poll, fl>>
clkVars == <<owner, chan, senders, bpm, tick_duration, running, next_tick,
             clk_now, pc, now, sent, issued, anchor, pulses, last>>
tapVars == <<taps_needed, reset_gap, taps, tap_times, tap_rets>>
vars == <<ctlVars, clkVars, tapVars>>

\* ======================================================================
\* Constants of the program
\* ======================================================================
LED_DIM == 5
LED_BRIGHT == 127
LED_SLOT0 == 12
LED_COUNT == 32
FRAME_LEN == 24
TAP_LED_INDEX == 23

\* ======================================================================
\* X1State::from_buf
\* ======================================================================

\* A frame is a function 0..23 -> 0..255.
\* Mutant: the groups of the button table start one byte later.
bit_shifted(buf, group, offset) ==
    IF 2 + group \in DOMAIN buf
      THEN IF offset < 8
             THEN ((buf[2 + group] \div (2 ^ offset)) % 2) # 0
             ELSE FALSE
      ELSE FALSE

\* Mutant: the mask is taken from the low two bits of the offset.
bit_offset_mod4(buf, group, offset) ==
    IF 1 + group \in DOMAIN buf
      THEN ((buf[1 + group] \div (2 ^ (offset % 4))) % 2) # 0
      ELSE FALSE

\* The `bit` closure: byte 1+group, mask 1 << offset.
bit(buf, group, offset) ==
    IF 1 + group \in DOMAIN buf
      THEN IF offset < 8
             THEN ((buf[1 + group] \div (2 ^ offset)) % 2) # 0
             ELSE FALSE
      ELSE FALSE

\* The `nibble` closure.
nibble(buf, index, high) ==
    IF index \in DOMAIN buf
      THEN IF high THEN buf[index] \div 16 ELSE buf[index] % 16
      ELSE 0

\* Mutant: the two bytes of a pot are read low byte first.
pots_raw_le(buf) ==
    [i \in 0..7 |->
        IF 8 + i * 2 + 1 < FRAME_LEN
          THEN buf[8 + i * 2] + buf[8 + i * 2 + 1] * 256
          ELSE 0]

\* pots_raw[i] = u16::from_be_bytes([buf[8+2i], buf[9+2i]])
pots_raw(buf) ==
    [i \in 0..7 |->
        IF 8 + i * 2 + 1 < FRAME_LEN
          THEN buf[8 + i * 2] * 256 + buf[8 + i * 2 + 1]
          ELSE 0]

enc(buf) ==
    <<nibble(buf, 6, FALSE), nibble(buf, 6, TRUE),
      nibble(buf, 7, FALSE), nibble(buf, 7, TRUE)>>

from_buf(buf) ==
    [ button_deck1_on         |-> bit(buf, 3, 4),
      button_deck2_on         |-> bit(buf, 4, 0),
      button_deck1_1          |-> bit(buf, 3, 5),
      button_deck2_1          |-> bit(buf, 4, 1),
      button_deck1_2          |-> bit(buf, 3, 6),
      button_deck2_2          |-> bit(buf, 4, 2),
      button_deck1_3          |-> bit(buf, 3, 7),
      button_deck2_3          |-> bit(buf, 4, 3),
      button_deck1_enc_load   |-> bit(buf, 3, 0),
      button_shift            |-> bit(buf, 4, 4),
      button_deck2_enc_load   |-> bit(buf, 3, 1),
      button_deck1_fx1        |-> bit(buf, 1, 1),
      button_deck1_fx2        |-> bit(buf, 1, 0),
      button_deck2_fx1        |-> bit(buf, 4, 6),
      button_deck2_fx2        |-> bit(buf, 4, 5),
      button_deck1_enc_loop   |-> bit(buf, 3, 2),
      button_hotcue           |-> bit(buf, 4, 7),
      button_deck2_enc_loop   |-> bit(buf, 3, 3),
      button_deck1_in         |-> bit(buf, 2, 4),
      button_deck1_out        |-> bit(buf, 0, 3),
      button_deck2_in         |-> bit(buf, 1, 4),
      button_deck2_out        |-> bit(buf, 2, 3),
      button_deck1_beat_left  |-> bit(buf, 0, 2),
      button_deck1_beat_right |-> bit(buf, 2, 5),
      button_deck2_beat_left  |-> bit(buf, 2, 2),
      button_deck2_beat_right |-> bit(buf, 1, 5),
      button_deck1_cue_rel    |-> bit(buf, 0, 1),
      button_deck1_cup_abs    |-> bit(buf, 2, 6),
      button_deck2_cue_rel    |-> bit(buf, 2, 1),
      button_deck2_cup_abs    |-> bit(buf, 1, 6),
      button_deck1_play       |-> bit(buf, 0, 0),
      button_deck1_sync       |-> bit(buf, 2, 7),
      button_deck2_play       |-> bit(buf, 2, 0),
      button_deck2_sync       |-> bit(buf, 1, 7),
      encoder_deck1_browse    |-> enc(buf)[1],
      encoder_deck2_browse    |-> enc(buf)[2],
      encoder_deck1_loop      |-> enc(buf)[3],
      encoder_deck2_loop      |-> enc(buf)[4],
      encoders                |-> enc(buf),
      pot_deck1_dry_wet       |-> pots_raw(buf)[4],
      pot_deck1_1             |-> pots_raw(buf)[6],
      pot_deck1_2             |-> pots_raw(buf)[7],
      pot_deck1_3             |-> pots_raw(buf)[5],
      pot_deck2_dry_wet       |-> pots_raw(buf)[2],
      pot_deck2_1             |-> pots_raw(buf)[1],
      pot_deck2_2             |-> pots_raw(buf)[0],
      pot_deck2_3             |-> pots_raw(buf)[3],
      pots                    |-> pots_raw(buf) ]

\* X1State::default(): every bool false, every number 0.
X1StateDefault == from_buf([i \in 0..(FRAME_LEN - 1) |-> 0])

\* The declaration orders of the id enums and of the snapshot's fields.
ButtonId ==
    <<"Deck1On", "Deck2On", "Deck1_1", "Deck2_1", "Deck1_2", "Deck2_2",
      "Deck1_3", "Deck2_3", "Deck1EncLoad", "Shift", "Deck2EncLoad",
      "Deck1Fx1", "Deck1Fx2", "Deck2Fx1", "Deck2Fx2", "Deck1EncLoop",
      "Hotcue", "Deck2EncLoop", "Deck1In", "Deck1Out", "Deck2In", "Deck2Out",
      "Deck1BeatLeft", "Deck1BeatRight", "Deck2BeatLeft", "Deck2BeatRight",
      "Deck1CueRel", "Deck1CupAbs", "Deck2CueRel", "Deck2CupAbs",
      "Deck1Play", "Deck1Sync", "Deck2Play", "Deck2Sync">>
EncoderId == <<"Deck1Browse", "Deck2Browse", "Deck1Loop", "Deck2Loop">>
PotId ==
    <<"Deck1DryWet", "Deck1_1", "Deck1_2", "Deck1_3",
      "Deck2DryWet", "Deck2_1", "Deck2_2", "Deck2_3">>

ButtonFields ==
    <<"button_deck1_on", "button_deck2_on", "button_deck1_1", "button_deck2_1",
      "button_deck1_2", "button_deck2_2", "button_deck1_3", "button_deck2_3",
      "button_deck1_enc_load", "button_shift", "button_deck2_enc_load",
      "button_deck1_fx1", "button_deck1_fx2", "button_deck2_fx1",
      "button_deck2_fx2", "button_deck1_enc_loop", "button_hotcue",
      "button_deck2_enc_loop", "button_deck1_in", "button_deck1_out",
      "button_deck2_in", "button_deck2_out", "button_deck1_beat_left",
      "button_deck1_beat_right", "button_deck2_beat_left",
      "button_deck2_beat_right", "button_deck1_cue_rel",
      "button_deck1_cup_abs", "button_deck2_cue_rel", "button_deck2_cup_abs",
      "button_deck1_play", "button_deck1_sync", "button_deck2_play",
      "button_deck2_sync">>
EncoderFields ==
    <<"encoder_deck1_browse", "encoder_deck2_browse",
      "encoder_deck1_loop", "encoder_deck2_loop">>
PotFields ==
    <<"pot_deck1_dry_wet", "pot_deck1_1", "pot_deck1_2", "pot_deck1_3",
      "pot_deck2_dry_wet", "pot_deck2_1", "pot_deck2_2", "pot_deck2_3">>

\* ======================================================================
\* X1Controller: dispatch
\* ======================================================================

\* The call sites of handle_button_changes, in source order: the id passed,
\* the field of the new snapshot read, the field of last_state read.
handle_button_changes ==
    <<
      <<"Deck1On", "button_deck1_on", "button_deck1_on">>,
      <<"Deck2On", "button_deck2_on", "button_deck2_on">>,
      <<"Deck1_1", "button_deck1_1", "button_deck1_1">>,
      <<"Deck2_1", "button_deck2_1", "button_deck2_1">>,
      <<"Deck1_2", "button_deck1_2", "button_deck1_2">>,
      <<"Deck2_2", "button_deck2_2", "button_deck2_2">>,
      <<"Deck1_3", "button_deck1_3", "button_deck1_3">>,
      <<"Deck2_3", "button_deck2_3", "button_deck2_3">>,
      <<"Deck1EncLoad", "button_deck1_enc_load", "button_deck1_enc_load">>,
      <<"Shift", "button_shift", "button_shift">>,
      <<"Deck2EncLoad", "button_deck2_enc_load", "button_deck2_enc_load">>,
      <<"Deck1Fx1", "button_deck1_fx1", "button_deck1_fx1">>,
      <<"Deck1Fx2", "button_deck1_fx2", "button_deck1_fx2">>,
      <<"Deck2Fx1", "button_deck2_fx1", "button_deck2_fx1">>,
      <<"Deck2Fx2", "button_deck2_fx2", "button_deck2_fx2">>,
      <<"Deck1EncLoop", "button_deck1_enc_loop", "button_deck1_enc_loop">>,
      <<"Hotcue", "button_hotcue", "button_hotcue">>,
      <<"Deck2EncLoop", "button_deck2_enc_loop", "button_deck2_enc_loop">>,
      <<"Deck1In", "button_deck1_in", "button_deck1_in">>,
      <<"Deck1Out", "button_deck1_out", "button_deck1_out">>,
      <<"Deck2In", "button_deck2_in", "button_deck2_in">>,
      <<"Deck2Out", "button_deck2_out", "button_deck2_out">>,
      <<"Deck1BeatLeft", "button_deck1_beat_left", "button_deck1_beat_left">>,
      <<"Deck1BeatRight", "button_deck1_beat_right", "button_deck1_beat_right">>,
      <<"Deck2BeatLeft", "button_deck2_beat_left", "button_deck2_beat_left">>,
      <<"Deck2BeatRight", "button_deck2_beat_right", "button_deck2_beat_right">>,
      <<"Deck1CueRel", "button_deck1_cue_rel", "button_deck1_cue_rel">>,
      <<"Deck1CupAbs", "button_deck1_cup_abs", "button_deck1_cup_abs">>,
      <<"Deck2CueRel", "button_deck2_cue_rel", "button_deck2_cue_rel">>,
      <<"Deck2CupAbs", "button_deck2_cup_abs", "button_deck2_cup_abs">>,
      <<"Deck1Play", "button_deck1_play", "button_deck1_play">>,
      <<"Deck1Sync", "button_deck1_sync", "button_deck1_sync">>,
      <<"Deck2Play", "button_deck2_play", "button_deck2_play">>,
      <<"Deck2Sync", "button_deck2_sync", "button_deck2_sync">>
    >>

handle_encoder_changes ==
    <<
      <<"Deck1Browse", "encoder_deck1_browse", "encoder_deck1_browse">>,
      <<"Deck2Browse", "encoder_deck2_browse", "encoder_deck2_browse">>,
      <<"Deck1Loop", "encoder_deck1_loop", "encoder_deck1_loop">>,
      <<"Deck2Loop", "encoder_deck2_loop", "encoder_deck2_loop">>
    >>

handle_pot_changes ==
    <<
      <<"Deck1DryWet", "pot_deck1_dry_wet", "pot_deck1_dry_wet">>,
      <<"Deck1_1", "pot_deck1_1", "pot_deck1_1">>,
      <<"Deck1_2", "pot_deck1_2", "pot_deck1_2">>,
      <<"Deck1_3", "pot_deck1_3", "pot_deck1_3">>,
      <<"Deck2DryWet", "pot_deck2_dry_wet", "pot_deck2_dry_wet">>,
      <<"Deck2_1", "pot_deck2_1", "pot_deck2_1">>,
      <<"Deck2_2", "pot_deck2_2", "pot_deck2_2">>,
      <<"Deck2_3", "pot_deck2_3", "pot_deck2_3">>
    >>


\* Mutant: the modifiers are taken from the previous snapshot.
Modifiers_from_last_state(state) == [shift |-> last_state.button_shift]

\* Modifiers::from_state
Modifiers_from_state(state) == [shift |-> state.button_shift]

\* LedHandle::set_raw: `h` is the pair the handle borrows, leds and dirty,
\* with `sets` counting the writes that went through (observation only).
LedHandle_set_raw(h, idx, value) ==
    IF idx \in DOMAIN h.leds
      THEN [leds |-> [h.leds EXCEPT ![idx] = value], dirty |-> TRUE,
            sets |-> h.sets + 1]
      ELSE h

LedHandle_set_pressed(h, idx, pressed) ==
    LedHandle_set_raw(h, idx, IF pressed THEN LED_BRIGHT ELSE LED_DIM)

\* The closures a caller can register.  "Quiet" leaves the LedHandle alone
\* (the closure of main.rs forwards the event to a channel); "Led" mirrors
\* the button on the tap LED with LedHandle::set_pressed.
ButtonClosures == {"Quiet", "Led"}
OtherClosures == {"Quiet"}

call_closure(cb, ev, h) ==
    IF cb = "Led" /\ ev.cat = "button"
      THEN LedHandle_set_pressed(h, TAP_LED_INDEX, ev.kind = "Pressed")
      ELSE h

\* LedHandle::new on the controller's leds and leds_dirty, as they are in acc.
handle_of(acc) == [leds |-> acc.leds, dirty |-> acc.dirty, sets |-> acc.sets]

\* acc once the closure has returned: the event was delivered, the handle's
\* writes are in the controller's buffer.
after_call(acc, ev, h) ==
    [events |-> Append(acc.events, ev), leds |-> h.leds, dirty |-> h.dirty,
     sets |-> h.sets]

\* Mutant: every edge is reported as a press.
button_event_always_pressed(state, id, new) ==
    [cat |-> "button", id |-> id, kind |-> "Pressed",
     modifiers |-> [shift |-> state.button_shift]]

\* The ButtonEvent emit_button builds (lines 635-648).
button_event(state, id, new) ==
    [cat |-> "button", id |-> id,
     kind |-> IF new THEN "Pressed" ELSE "Released",
     modifiers |-> Modifiers_from_state(state)]

\* Mutant: only a press is an edge, a release is dropped.
emit_button_press_only(acc, state, id, new, old) ==
    IF ~new \/ new = old THEN acc
    ELSE IF button_callback = "None" THEN acc
    ELSE LET ev == button_event(state, id, new)
             h == call_closure(button_callback, ev, handle_of(acc))
         IN after_call(acc, ev, h)

\* emit_button: acc carries the events delivered so far and the LED buffer.
emit_button(acc, state, id, new, old) ==
    IF new = old THEN acc
    ELSE IF button_callback = "None" THEN acc
    ELSE LET ev == button_event(state, id, new)
             h == call_closure(button_callback, ev, handle_of(acc))
         IN after_call(acc, ev, h)

emit_encoder(acc, state, id, new, old) ==
    IF new = old THEN acc
    ELSE IF encoder_callback = "None" THEN acc
    ELSE LET ev == [cat |-> "encoder", id |-> id, value |-> new, previous |-> old,
                    modifiers |-> Modifiers_from_state(state)]
             h == call_closure(encoder_callback, ev, handle_of(acc))
         IN after_call(acc, ev, h)

emit_pot(acc, state, id, new, old) ==
    IF new = old THEN acc
    ELSE IF pot_callback = "None" THEN acc
    ELSE LET ev == [cat |-> "pot", id |-> id, value |-> new, previous |-> old,
                    modifiers |-> Modifiers_from_state(state)]
             h == call_closure(pot_callback, ev, handle_of(acc))
         IN after_call(acc, ev, h)

emit(cat, acc, state, id, new, old) ==
    CASE cat = "button"  -> emit_button(acc, state, id, new, old)
      [] cat = "encoder" -> emit_encoder(acc, state, id, new, old)
      [] cat = "pot"     -> emit_pot(acc, state, id, new, old)

\* The calls of one handle_*_changes function, from the i-th on.
RECURSIVE run_calls(_, _, _, _, _)
run_calls(cat, calls, i, acc, state) ==
    IF i > Len(calls) THEN acc
    ELSE LET next == emit(cat, acc, state, calls[i][1],
                          state[calls[i][2]], last_state[calls[i][3]])
         IN IF Len(next.events) >= 0
              THEN run_calls(cat, calls, i + 1, next, state)
              ELSE next

\* Mutant: the pots are diffed first.
dispatch_pots_first(state) ==
    LET a0 == [events |-> <<>>, leds |-> leds, dirty |-> leds_dirty, sets |-> 0]
        a1 == run_calls("pot", handle_pot_changes, 1, a0, state)
        a2 == run_calls("button", handle_button_changes, 1, a1, state)
    IN run_calls("encoder", handle_encoder_changes, 1, a2, state)

\* Lines 234-236 of poll_once: buttons, then encoders, then pots.
dispatch(state) ==
    LET a0 == [events |-> <<>>, leds |-> leds, dirty |-> leds_dirty, sets |-> 0]
        a1 == run_calls("button", handle_button_changes, 1, a0, state)
        a2 == run_calls("encoder", handle_encoder_changes, 1, a1, state)
    IN run_calls("pot", handle_pot_changes, 1, a2, state)

\* Mutant: the dirty flag is not consulted.
will_write_always(dirty) == TRUE

\* flush_leds gets to write_bulk only when the buffer is dirty (line 701).
will_write(dirty) == dirty

\* Mutant: an acknowledgment read that fails keeps the buffer dirty.
flush_leds_ack_blocks(dirty, w, a) ==
    IF ~will_write(dirty)
      THEN [dirty |-> FALSE, wrote |-> FALSE, ok |-> FALSE, ack |-> "-"]
    ELSE IF w = "Err"
      THEN [dirty |-> TRUE, wrote |-> TRUE, ok |-> FALSE, ack |-> "-"]
    ELSE [dirty |-> a = "Err", wrote |-> TRUE, ok |-> TRUE, ack |-> a]

\* flush_leds: `w` is what write_bulk returns, `a` what the read of the
\* acknowledgment returns.  The result always is Ok(()).
flush_leds(dirty, w, a) ==
    IF ~will_write(dirty)
      THEN [dirty |-> FALSE, wrote |-> FALSE, ok |-> FALSE, ack |-> "-"]
    ELSE IF w = "Err"
      THEN [dirty |-> TRUE, wrote |-> TRUE, ok |-> FALSE, ack |-> "-"]
    ELSE [dirty |-> FALSE, wrote |-> TRUE, ok |-> TRUE, ack |-> a]

\* Mutant: the first frame is diffed like any other.
is_baseline_never(init) == FALSE

\* The branch of poll_once that records the baseline (line 226).
is_baseline(init) == ~init


\* Mutant: a read that brings no full frame resets the snapshot.
no_new_data_resets(st) == X1StateDefault

\* last_state after a read that brought no full frame (lines 241-243): the
\* arms are empty or return, the field is not assigned.
no_new_data(st) == st

\* Mutant: the buffer is written as it was before the handlers ran.
flushed_buffer_before_handlers(before, after) == before

\* The bytes flush_leds hands to write_bulk at line 238: self.leds, which the
\* handlers of lines 234-236 have written to by then.
flushed_buffer(before, after) == after

\* Mutant: a timeout of the input read is returned to the caller as well.
poll_result_timeout_fatal(read) ==
    IF read \in {"error", "timeout"} THEN "Err" ELSE "Ok"

\* What poll_once returns (lines 241-245): the error of the input read when it
\* is not a timeout, Ok(()) otherwise; flush_leds never returns an error.
poll_result(read) == IF read = "error" THEN "Err" ELSE "Ok"

\* Mutant: the index is not checked, the buffer is marked dirty in any case.
set_led_raw_unchecked(h, idx, value) ==
    [leds |-> [i \in DOMAIN h.leds |-> IF i = idx THEN value ELSE h.leds[i]],
     dirty |-> TRUE, sets |-> h.sets + 1]

\* X1Controller::set_led_raw, on the controller's own leds and leds_dirty.
set_led_raw(h, idx, value) ==
    IF idx \in DOMAIN h.leds
      THEN [leds |-> [h.leds EXCEPT ![idx] = value], dirty |-> TRUE,
            sets |-> h.sets + 1]
      ELSE h

set_led_pressed(h, idx, pressed) ==
    set_led_raw(h, idx, IF pressed THEN LED_BRIGHT ELSE LED_DIM)

\* ======================================================================
\* Inputs of the controller
\* ======================================================================

\* A 24-byte frame, zero but for bytes 3, 5, 6 and 17.
FrameOf(b3, b5, b6, b17) ==
    [i \in 0..(FRAME_LEN - 1) |->
        CASE i = 3  -> b3
          [] i = 5  -> b5
          [] i = 6  -> b6
          [] i = 17 -> b17
          [] OTHER  -> 0]

\* Byte 3 bit 7 is Deck1Sync, byte 5 bit 0 is Deck2On and bit 4 is Shift,
\* byte 6 holds two encoder nibbles, bytes 16-17 are physical pot 4.
Frames ==
    { FrameOf(0, 0, 0, 0),  FrameOf(0, 16, 0, 0),  FrameOf(0, 17, 0, 0),
      FrameOf(128, 17, 33, 7) }

\* What the read of the input endpoint returns when it is not a full frame.
OtherReads == {"short", "timeout", "error"}
\* What write_bulk returns, and what the read of the acknowledgment returns.
WriteOutcomes == {"Ok", "Err"}
AckOutcomes == {"Byte", "Timeout", "Err"}
LedIdxInputs == {TAP_LED_INDEX, LED_COUNT}
LedValueInputs == {LED_DIM, LED_BRIGHT}

\* ======================================================================
\* Observation records
\* ======================================================================
NoFrame == [i \in 0..(FRAME_LEN - 1) |-> 0]

\* What an operation that is not a full-frame poll leaves in `poll`.
PollRec(op, read, ret) ==
    [op |-> op, read |-> read, ret |-> ret, nth |-> 0, frame |-> NoFrame,
     old |-> X1StateDefault,
     cbs |-> [button |-> "None", encoder |-> "None", pot |-> "None"],
     events |-> <<>>, dirty_at_flush |-> FALSE,
     flush |-> [dirty |-> FALSE, wrote |-> FALSE, ok |-> FALSE, ack |-> "-"],
     written |-> <<>>]

Outcome(f) == IF ~f.wrote THEN "none" ELSE IF f.ok THEN "ok" ELSE "fail"

Min(a, b) == IF a < b THEN a ELSE b

\* `fl` after a call of flush_leds with result f, `set` telling whether the
\* handlers of this poll did an in-range LED set before it.
FlushSeen(f, set) ==
    [n |-> Min(fl.n + 1, 2), prev |-> fl.cur, cur |-> Outcome(f),
     setBetween |-> fl.setSince \/ set, setSince |-> FALSE]

\* ======================================================================
\* X1Controller: operations
\* ======================================================================
InitCtl ==
    /\ leds = [i \in 0..(LED_COUNT - 1) |-> IF i = 0 THEN LED_SLOT0 ELSE LED_DIM]
    /\ leds_dirty = TRUE
    /\ last_state = X1StateDefault
    /\ initialized = FALSE
    /\ button_callback = "None"
    /\ encoder_callback = "None"
    /\ pot_callback = "None"
    /\ poll = PollRec("other", "-", "Ok")
    /\ fl = [n |-> 0, prev |-> "none", cur |-> "none",
             setBetween |-> FALSE, setSince |-> FALSE]

\* poll_once on a read that returned a full frame (lines 222-240).  The
\* transfers of flush_leds are drawn only when flush_leds gets to them.
PollFullFrom(frames) ==
    /\ \E frame \in frames :
       \E state \in {from_buf(frame)} :
       \E d \in {IF is_baseline(initialized)
                   THEN [events |-> <<>>, leds |-> leds, dirty |-> TRUE,
                         sets |-> 0]
                   ELSE dispatch(state)} :
       \E w \in IF will_write(d.dirty) THEN WriteOutcomes ELSE {"-"} :
       \E a \in IF w = "Ok" THEN AckOutcomes ELSE {"-"} :
       \E f \in {flush_leds(d.dirty, w, a)} :
          /\ last_state' = state
          /\ initialized' = TRUE
          /\ leds' = d.leds
          /\ leds_dirty' = f.dirty
          /\ poll' = [op |-> "poll_once", read |-> "full",
                      ret |-> poll_result("full"),
                      nth |-> Min(fl.n + 1, 2), frame |-> frame,
                      old |-> last_state,
                      cbs |-> [button |-> button_callback,
                               encoder |-> encoder_callback,
                               pot |-> pot_callback],
                      events |-> d.events, dirty_at_flush |-> d.dirty,
                      flush |-> f,
                      written |-> IF f.wrote
                                    THEN <<flushed_buffer(leds, d.leds)>>
                                    ELSE <<>>]
          /\ fl' = FlushSeen(f, d.sets > 0)
    /\ UNCHANGED <<button_callback, encoder_callback, pot_callback>>
    /\ UNCHANGED clkVars
    /\ UNCHANGED tapVars

PollFull == PollFullFrom(Frames)

\* poll_once on a short read or a timeout (lines 241-242), or on another
\* error of the read (line 243).
PollOther ==
    /\ \E r \in OtherReads :
         poll' = PollRec("poll_once", r, poll_result(r))
    /\ last_state' = no_new_data(last_state)
    /\ UNCHANGED <<leds, leds_dirty, initialized, button_callback,
                   encoder_callback, pot_callback, fl>>
    /\ UNCHANGED clkVars
    /\ UNCHANGED tapVars

SetButtonCallback ==
    /\ \E c \in ButtonClosures : button_callback' = c
    /\ poll' = PollRec("other", "-", "Ok")
    /\ UNCHANGED <<leds, leds_dirty, last_state, initialized,
                   encoder_callback, pot_callback, fl>>
    /\ UNCHANGED clkVars
    /\ UNCHANGED tapVars

SetEncoderCallback ==
    /\ \E c \in OtherClosures : encoder_callback' = c
    /\ poll' = PollRec("other", "-", "Ok")
    /\ UNCHANGED <<leds, leds_dirty, last_state, initialized,
                   button_callback, pot_callback, fl>>
    /\ UNCHANGED clkVars
    /\ UNCHANGED tapVars

SetPotCallback ==
    /\ \E c \in OtherClosures : pot_callback' = c
    /\ poll' = PollRec("other", "-", "Ok")
    /\ UNCHANGED <<leds, leds_dirty, last_state, initialized,
                   button_callback, encoder_callback, fl>>
    /\ UNCHANGED clkVars
    /\ UNCHANGED tapVars

ClearCallbacks ==
    /\ button_callback' = "None"
    /\ encoder_callback' = "None"
    /\ pot_callback' = "None"
    /\ poll' = PollRec("other", "-", "Ok")
    /\ UNCHANGED <<leds, leds_dirty, last_state, initialized, fl>>
    /\ UNCHANGED clkVars
    /\ UNCHANGED tapVars

SetLedRaw ==
    /\ \E idx \in LedIdxInputs, value \in LedValueInputs :
         LET h == set_led_raw([leds |-> leds, dirty |-> leds_dirty, sets |-> 0],
                              idx, value)
         IN /\ leds' = h.leds
            /\ leds_dirty' = h.dirty
            /\ fl' = [fl EXCEPT !.setSince = @ \/ h.sets > 0]
    /\ poll' = PollRec("other", "-", "Ok")
    /\ UNCHANGED <<last_state, initialized, button_callback,
                   encoder_callback, pot_callback>>
    /\ UNCHANGED clkVars
    /\ UNCHANGED tapVars

SetLedPressed ==
    /\ \E idx \in LedIdxInputs, pressed \in BOOLEAN :
         LET h == set_led_pressed([leds |-> leds, dirty |-> leds_dirty,
                                   sets |-> 0], idx, pressed)
         IN /\ leds' = h.leds
            /\ leds_dirty' = h.dirty
            /\ fl' = [fl EXCEPT !.setSince = @ \/ h.sets > 0]
    /\ poll' = PollRec("other", "-", "Ok")
    /\ UNCHANGED <<last_state, initialized, button_callback,
                   encoder_callback, pot_callback>>
    /\ UNCHANGED clkVars
    /\ UNCHANGED tapVars


NextCtl ==
    \/ PollFull
    \/ PollOther
    \/ SetButtonCallback
    \/ SetEncoderCallback
    \/ SetPotCallback
    \/ ClearCallbacks
    \/ SetLedRaw
    \/ SetLedPressed

\* The clock domain, before MidiClock::new: nothing of it exists.
ClockAbsent ==
    /\ owner = "none"
    /\ chan = <<>>
    /\ senders = 0
    /\ bpm = 0
    /\ tick_duration = 0
    /\ running = FALSE
    /\ next_tick = 0
    /\ clk_now = 0
    /\ pc = "none"
    /\ now = 0
    /\ sent = <<>>
    /\ issued = <<>>
    /\ anchor = 0
    /\ pulses = 0
    /\ last = [step |-> "none"]

\* TapTempo::new(4, 2.0) of main.rs:47, before the first tap.
TapIdle ==
    /\ taps_needed = 4
    /\ reset_gap = 2000
    /\ taps = <<>>
    /\ tap_times = <<>>
    /\ tap_rets = <<>>

Init == InitCtl /\ ClockAbsent /\ TapIdle

Next == NextCtl

Spec == Init /\ [][Next]_vars

\* ======================================================================
\* X1State::from_buf on its own
\* ======================================================================
\* The frames with no bit set or exactly one.
ProbeFrames ==
    {[i \in 0..(FRAME_LEN - 1) |-> IF i = k THEN 2 ^ b ELSE 0] :
        k \in 0..(FRAME_LEN - 1), b \in 0..7} \cup {NoFrame}

\* X1State::from_buf(&buf): the snapshot is left in last_state, the frame in
\* poll.
FromBuf ==
    /\ \E frame \in ProbeFrames :
         /\ last_state' = from_buf(frame)
         /\ poll' = [PollRec("from_buf", "full", "Ok") EXCEPT !.frame = frame]
    /\ UNCHANGED <<leds, leds_dirty, initialized, button_callback,
                   encoder_callback, pot_callback, fl>>
    /\ UNCHANGED clkVars
    /\ UNCHANGED tapVars

SpecDecode == Init /\ [][FromBuf]_vars


\* ======================================================================
\* poll_once on frames one button apart
\* ======================================================================
\* Byte i of the frame whose set bits are the pairs <<byte, bit>> of `set`,
\* from bit b up.
RECURSIVE ByteWith(_, _, _)
ByteWith(set, i, b) ==
    IF b > 7 THEN 0
    ELSE (IF <<i, b>> \in set THEN 2 ^ b ELSE 0) + ByteWith(set, i, b + 1)

FrameWith(set) == [i \in 0..(FRAME_LEN - 1) |-> ByteWith(set, i, 0)]

\* The bits of the bytes the `bit` closure reads.
ButtonBits == {<<k, b>> : k \in 1..5, b \in 0..7}

\* The frames with none of these bits and with exactly one.
EdgeFrames == {FrameWith({})} \cup {FrameWith({p}) : p \in ButtonBits}

\* poll_once on a full frame of EdgeFrames.  One button is held at a time:
\* the frame after one with a button down is the same frame or the frame with
\* no bit set.
PollEdge ==
    PollFullFrom(IF last_state = X1StateDefault
                   THEN EdgeFrames
                   ELSE {FrameWith({}), poll.frame})

NextEdges ==
    \/ PollEdge
    \/ PollOther
    \/ SetButtonCallback

\* The controller polled with frames that are a button apart.
SpecEdges == Init /\ [][NextEdges]_vars

\* ======================================================================
\* MidiClock: constants and pure functions
\* ======================================================================
PPQN == 24
MIN_BPM == 30
MAX_BPM == 300
NANOS_PER_SECOND == 1000000000
SECONDS_PER_MINUTE == 60
CLOCK_BYTE == 248
START_BYTE == 250
STOP_BYTE == 252

\* An f64 is a record: a NaN, or the number v (whole numbers are enough for
\* the clamp and for the division).  Every comparison with a NaN is false.
F(v) == [v |-> v, nan |-> FALSE]
NaN == [v |-> 0, nan |-> TRUE]
f64_lt(a, b) == ~a.nan /\ ~b.nan /\ a.v < b.v
f64_gt(a, b) == ~a.nan /\ ~b.nan /\ a.v > b.v

\* f64::clamp: `if self < min { min } else if self > max { max } else { self }`,
\* so a NaN comes back as it went in.
f64_clamp(x, lo, hi) ==
    IF f64_lt(x, lo) THEN lo ELSE IF f64_gt(x, hi) THEN hi ELSE x

sanitize_bpm(raw) == f64_clamp(raw, F(MIN_BPM), F(MAX_BPM))

Max(a, b) == IF a > b THEN a ELSE b

\* Mutant: the seconds are divided before they are scaled to a minute.
nanos_per_minute_div_early(d) == SECONDS_PER_MINUTE * (NANOS_PER_SECOND \div d)

\* floor(60 * 10^9 / d) for d > 0.  60 * 10^9 is beyond the integers TLC
\* computes with, so the quotient is taken in two parts:
\* floor(f*a/d) = f*floor(a/d) + floor(f*(a mod d)/d).
nanos_per_minute_div(d) ==
    SECONDS_PER_MINUTE * (NANOS_PER_SECOND \div d)
      + (SECONDS_PER_MINUTE * (NANOS_PER_SECOND % d)) \div d

\* duration_from_bpm: (60e9 / (bpm * 24)).max(1.0) as u64 nanoseconds.
\* f64::max returns the other operand when one is a NaN, so a NaN bpm gives
\* 1 ns.  The quotient of whole numbers is truncated by the cast; a bpm that
\* is not positive does not get past sanitize_bpm.
duration_from_bpm(b) ==
    IF b.nan THEN 1
    ELSE IF b.v * PPQN > 0
           THEN Max(nanos_per_minute_div(b.v * PPQN), 1)
           ELSE 1

\* ======================================================================
\* Inputs and bounds of the clock domain
\* ======================================================================
BpmInputs == {F(10), F(1000), NaN}
InitialBpmInputs == {F(120), NaN}
SendOutcomes == {TRUE, FALSE}
\* The owner sends at most MaxCmds commands before it is dropped.
MaxCmds == 3
\* The clock advances in steps of TimeStep ns, MaxSteps times at most.
TimeStep == 7000000
MaxSteps == 3
\* Pulses are sent while fewer than MaxSent bytes were handed to send_byte.
MaxSent == 4
\* The bounds of the fair specification (see LiveEnv).
MaxLiveCmds == 2
MaxLiveSteps == 2

\* ======================================================================
\* MidiClock: the owner's side
\* ======================================================================
Start == [cmd |-> "Start"]
Stop == [cmd |-> "Stop"]
SetBpm(b) == [bpm |-> b, cmd |-> "SetBpm"]
Shutdown == [cmd |-> "Shutdown"]

\* MidiClock::new, from the spawn on: the thread is at the head of its loop.
InitClk ==
    /\ owner = "alive"
    /\ chan = <<>>
    /\ senders = 1
    /\ \E b \in InitialBpmInputs :
         /\ bpm = sanitize_bpm(b)
         /\ tick_duration = duration_from_bpm(sanitize_bpm(b))
    /\ running = FALSE
    /\ next_tick = 0
    /\ clk_now = 0
    /\ pc = "top"
    /\ now = 0
    /\ sent = <<>>
    /\ issued = <<>>
    /\ anchor = 0
    /\ pulses = 0
    /\ last = [step |-> "none"]

\* Sender::send fails only when the receiver is gone, that is when run_clock
\* has returned.
send_ok == pc # "closed"

\* send_command
send_command(command) ==
    /\ owner = "alive"
    /\ Len(issued) < MaxCmds
    /\ chan' = IF send_ok THEN Append(chan, command) ELSE chan
    /\ issued' = Append(issued, command)
    /\ UNCHANGED <<owner, senders, bpm, tick_duration, running, next_tick,
                   clk_now, pc, now, sent, anchor, pulses, last>>
    /\ UNCHANGED ctlVars
    /\ UNCHANGED tapVars

MidiClock_start == send_command(Start)

MidiClock_stop == send_command(Stop)

MidiClock_set_bpm == \E raw \in BpmInputs : send_command(SetBpm(sanitize_bpm(raw)))

\* Drop for MidiClock, up to the join: Shutdown is sent; when the send fails
\* there is no join and the fields (the Sender among them) are dropped.
DropSend ==
    /\ owner = "alive"
    /\ IF send_ok
         THEN /\ chan' = Append(chan, Shutdown)
              /\ owner' = "joining"
              /\ senders' = senders
         ELSE /\ chan' = chan
              /\ owner' = "dropped"
              /\ senders' = 0
    /\ issued' = Append(issued, Shutdown)
    /\ UNCHANGED <<bpm, tick_duration, running, next_tick, clk_now, pc, now,
                   sent, anchor, pulses, last>>
    /\ UNCHANGED ctlVars
    /\ UNCHANGED tapVars

\* Mutant: drop does not wait for the thread.
join_returns_at_once == TRUE

\* handle.join() (line 99) returns when run_clock has returned.
join_returns == pc = "closed"

\* handle.join() returns once run_clock has returned; then the fields drop.
DropJoin ==
    /\ owner = "joining"
    /\ join_returns
    /\ owner' = "dropped"
    /\ senders' = 0
    /\ UNCHANGED <<chan, bpm, tick_duration, running, next_tick, clk_now, pc,
                   now, sent, issued, anchor, pulses, last>>
    /\ UNCHANGED ctlVars
    /\ UNCHANGED tapVars

\* Time passes.
Tick ==
    /\ now < MaxSteps * TimeStep
    /\ now' = now + TimeStep
    /\ UNCHANGED <<owner, chan, senders, bpm, tick_duration, running,
                   next_tick, clk_now, pc, sent, issued, anchor, pulses, last>>
    /\ UNCHANGED ctlVars
    /\ UNCHANGED tapVars

\* ======================================================================
\* run_clock
\* ======================================================================

\* What a step of the thread leaves in `last`.
Step(step, cmd, was_running, bytes, ok, prev_tick) ==
    [step |-> step, cmd |-> cmd, was_running |-> was_running,
     bytes |-> bytes, ok |-> ok, prev_tick |-> prev_tick]

\* Mutant: the next deadline is measured from the current time.
next_deadline_from_now(prev, dur) == now + dur

\* next_tick.checked_add(tick_duration) of lines 158-160; an Instant is far
\* from overflowing, so the unwrap_or_else is not taken.
next_deadline(prev, dur) == prev + dur

\* Mutant: Start sets the deadline one interval after the current time.
start_deadline_after_interval(dur) == now + dur

\* The deadline a successful Start sets: Instant::now() (lines 176, 220).
start_deadline(dur) == now

\* Mutant: a rate change keeps the deadline it finds.
rate_deadline_keeps_phase(dur) == next_tick

\* The deadline SetBpm sets while running (lines 191-193).
rate_deadline(dur) == now + dur

\* Mutant: a Stop whose byte could not be sent leaves the clock running.
stop_running_on_success(ok) == ~ok

\* `running` after Stop in the running branch (line 186): false, whatever
\* send_byte returned.
stop_running(ok) == FALSE

\* Mutant: a pulse that could not be sent leaves the clock running.
running_after_pulse_ignores_error(ok) == TRUE

\* `running` after the pulse of lines 151-161: false when send_byte failed.
running_after_pulse(ok) == ok

\* Mutant: Stop leaves the loop as Shutdown does.
after_command_stop_breaks(c) ==
    IF c.cmd \in {"Shutdown", "Stop"} THEN "closed" ELSE "top"

\* Mutant: no arm leaves the loop.
after_command_never_breaks(c) == "top"

\* Where the thread is after the arm of command c: Shutdown breaks out of the
\* loop to connection.close() (lines 204, 235, 241), the other arms fall
\* through to the head of the loop.
after_command(c) == IF c.cmd = "Shutdown" THEN "closed" ELSE "top"

\* Mutant: Shutdown leaves without a stop byte.
shutdown_stop_never(is_running) == FALSE

\* Whether Shutdown sends the stop byte (line 196).
shutdown_stop(is_running) == is_running

\* Mutant: the head of the loop finds a pulse due whatever the time is.
pulse_due_always == TRUE

\* Mutant: the head of the loop never finds a pulse due.
pulse_due_never == FALSE

\* `if now >= next_tick` of line 150, with the time just read at line 149.
pulse_due == now >= next_tick

\* Lines 148-163 with now >= next_tick: one pulse is sent.
ClockPulse ==
    /\ pc = "top"
    /\ running
    /\ pulse_due
    /\ Len(sent) < MaxSent
    /\ \E ok \in SendOutcomes :
         /\ sent' = Append(sent, [byte |-> CLOCK_BYTE, ok |-> ok])
         /\ IF ok
              THEN /\ next_tick' = next_deadline(next_tick, tick_duration)
                   /\ pulses' = pulses + 1
              ELSE UNCHANGED <<next_tick, pulses>>
         /\ running' = running_after_pulse(ok)
         /\ last' = Step("pulse", "-", running, <<CLOCK_BYTE>>, ok, next_tick)
    /\ clk_now' = now
    /\ pc' = "top"
    /\ UNCHANGED <<owner, chan, senders, bpm, tick_duration, now, issued, anchor>>
    /\ UNCHANGED ctlVars
    /\ UNCHANGED tapVars

\* Lines 148-166 with now < next_tick: the thread enters recv_timeout.
ClockWait ==
    /\ pc = "top"
    /\ running
    /\ ~pulse_due
    /\ clk_now' = now
    /\ pc' = "recv_timeout"
    /\ last' = Step("wait", "-", running, <<>>, TRUE, next_tick)
    /\ UNCHANGED <<owner, chan, senders, bpm, tick_duration, running,
                   next_tick, now, sent, issued, anchor, pulses>>
    /\ UNCHANGED ctlVars
    /\ UNCHANGED tapVars

\* Lines 209-210: not running, the thread enters recv.
ClockBlock ==
    /\ pc = "top"
    /\ ~running
    /\ pc' = "recv"
    /\ last' = Step("block", "-", running, <<>>, TRUE, next_tick)
    /\ UNCHANGED <<owner, chan, senders, bpm, tick_duration, running,
                   next_tick, clk_now, now, sent, issued, anchor, pulses>>
    /\ UNCHANGED ctlVars
    /\ UNCHANGED tapVars

\* Whether handling command c hands a byte to send_byte.
sends_byte(c, is_running) ==
    \/ c.cmd \in {"Start", "Stop"}
    \/ c.cmd = "Shutdown" /\ is_running

\* The arms of the match of lines 166-208, for a received command.
on_command_running(c, ok) ==
    CASE c.cmd = "Start" ->
           /\ sent' = Append(sent, [byte |-> START_BYTE, ok |-> ok])
           /\ IF ok
                THEN /\ running' = TRUE
                     /\ next_tick' = start_deadline(tick_duration)
                     /\ anchor' = start_deadline(tick_duration)
                     /\ pulses' = 0
                ELSE /\ running' = FALSE
                     /\ UNCHANGED <<next_tick, anchor, pulses>>
           /\ pc' = after_command(c)
           /\ last' = Step("cmd", c.cmd, running, <<START_BYTE>>, ok, next_tick)
           /\ UNCHANGED <<bpm, tick_duration>>
      [] c.cmd = "Stop" ->
           /\ sent' = Append(sent, [byte |-> STOP_BYTE, ok |-> ok])
           /\ running' = stop_running(ok)
           /\ pc' = after_command(c)
           /\ last' = Step("cmd", c.cmd, running, <<STOP_BYTE>>, ok, next_tick)
           /\ UNCHANGED <<bpm, tick_duration, next_tick, anchor, pulses>>
      [] c.cmd = "SetBpm" ->
           /\ bpm' = c.bpm
           /\ tick_duration' = duration_from_bpm(c.bpm)
           /\ next_tick' = rate_deadline(duration_from_bpm(c.bpm))
           /\ anchor' = rate_deadline(duration_from_bpm(c.bpm))
           /\ pulses' = 0
           /\ pc' = after_command(c)
           /\ last' = Step("cmd", c.cmd, running, <<>>, TRUE, next_tick)
           /\ UNCHANGED <<sent, running>>
      [] c.cmd = "Shutdown" ->
           /\ sent' = IF shutdown_stop(running)
                        THEN Append(sent, [byte |-> STOP_BYTE, ok |-> ok])
                        ELSE sent
           /\ pc' = after_command(c)
           /\ last' = Step("cmd", c.cmd, running,
                           IF shutdown_stop(running) THEN <<STOP_BYTE>> ELSE <<>>,
                           ok, next_tick)
           /\ UNCHANGED <<bpm, tick_duration, running, next_tick, anchor, pulses>>

\* The arms of the match of lines 210-237, for a received command.
on_command_idle(c, ok) ==
    CASE c.cmd = "Start" ->
           /\ sent' = Append(sent, [byte |-> START_BYTE, ok |-> ok])
           /\ IF ok
                THEN /\ running' = TRUE
                     /\ next_tick' = start_deadline(tick_duration)
                     /\ anchor' = start_deadline(tick_duration)
                     /\ pulses' = 0
                ELSE /\ running' = FALSE
                     /\ UNCHANGED <<next_tick, anchor, pulses>>
           /\ pc' = after_command(c)
           /\ last' = Step("cmd", c.cmd, running, <<START_BYTE>>, ok, next_tick)
           /\ UNCHANGED <<bpm, tick_duration>>
      [] c.cmd = "Stop" ->
           /\ sent' = Append(sent, [byte |-> STOP_BYTE, ok |-> ok])
           /\ pc' = after_command(c)
           /\ last' = Step("cmd", c.cmd, running, <<STOP_BYTE>>, ok, next_tick)
           /\ UNCHANGED <<bpm, tick_duration, running, next_tick, anchor, pulses>>
      [] c.cmd = "SetBpm" ->
           /\ bpm' = c.bpm
           /\ tick_duration' = duration_from_bpm(c.bpm)
           /\ pc' = after_command(c)
           /\ last' = Step("cmd", c.cmd, running, <<>>, TRUE, next_tick)
           /\ UNCHANGED <<sent, running, next_tick, anchor, pulses>>
      [] c.cmd = "Shutdown" ->
           /\ pc' = after_command(c)
           /\ last' = Step("cmd", c.cmd, running, <<>>, TRUE, next_tick)
           /\ UNCHANGED <<sent, bpm, tick_duration, running, next_tick,
                          anchor, pulses>>

\* RecvTimeoutError::Disconnected (line 207) and the Err of recv (line 236):
\* the loop is left without a byte.
on_disconnected ==
    /\ pc' = "closed"
    /\ last' = Step("disconnected", "-", running, <<>>, TRUE, next_tick)
    /\ UNCHANGED <<sent, bpm, tick_duration, running, next_tick, anchor, pulses>>

\* recv_timeout returns a command, or finds every Sender gone.
ClockRecvTimeout ==
    /\ pc = "recv_timeout"
    /\ chan # <<>> \/ senders = 0
    /\ IF chan # <<>>
         THEN /\ \E ok \in IF sends_byte(Head(chan), running)
                             THEN SendOutcomes ELSE {TRUE} :
                    on_command_running(Head(chan), ok)
              /\ chan' = Tail(chan)
         ELSE /\ on_disconnected
              /\ chan' = chan
    /\ UNCHANGED <<owner, senders, clk_now, now, issued>>
    /\ UNCHANGED ctlVars
    /\ UNCHANGED tapVars

\* recv_timeout returns Timeout (line 206): the wait of next_tick - now,
\* begun no earlier than clk_now, has run out.
ClockTimeout ==
    /\ pc = "recv_timeout"
    /\ now >= next_tick
    /\ pc' = "top"
    /\ last' = Step("timeout", "-", running, <<>>, TRUE, next_tick)
    /\ UNCHANGED <<owner, chan, senders, bpm, tick_duration, running,
                   next_tick, clk_now, now, sent, issued, anchor, pulses>>
    /\ UNCHANGED ctlVars
    /\ UNCHANGED tapVars

\* recv returns a command, or finds every Sender gone.
ClockRecv ==
    /\ pc = "recv"
    /\ chan # <<>> \/ senders = 0
    /\ IF chan # <<>>
         THEN /\ \E ok \in IF sends_byte(Head(chan), FALSE)
                             THEN SendOutcomes ELSE {TRUE} :
                    on_command_idle(Head(chan), ok)
              /\ chan' = Tail(chan)
         ELSE /\ on_disconnected
              /\ chan' = chan
    /\ UNCHANGED <<owner, senders, clk_now, now, issued>>
    /\ UNCHANGED ctlVars
    /\ UNCHANGED tapVars

NextClock ==
    \/ MidiClock_start
    \/ MidiClock_stop
    \/ MidiClock_set_bpm
    \/ DropSend
    \/ DropJoin
    \/ Tick
    \/ ClockPulse
    \/ ClockWait
    \/ ClockBlock
    \/ ClockRecvTimeout
    \/ ClockTimeout
    \/ ClockRecv

\* The clock domain on its own: the controller is connected and never polled.
InitClock == InitCtl /\ InitClk /\ TapIdle

SpecClock == InitClock /\ [][NextClock]_vars

\* The steps of the thread spawned at line 61.
ClockThread ==
    \/ ClockPulse
    \/ ClockWait
    \/ ClockBlock
    \/ ClockRecvTimeout
    \/ ClockTimeout
    \/ ClockRecv

\* The environment of the fair specification: the owner sends at most
\* MaxLiveCmds commands before Shutdown and the clock advances MaxLiveSteps
\* times at most.
LiveEnv ==
    /\ Len(issued) <= MaxLiveCmds + 1
    /\ issued # <<>> /\ issued[Len(issued)] # Shutdown =>
          Len(issued) <= MaxLiveCmds
    /\ now <= MaxLiveSteps * TimeStep

NextClockLive ==
    \/ MidiClock_start /\ LiveEnv'
    \/ MidiClock_stop /\ LiveEnv'
    \/ MidiClock_set_bpm /\ LiveEnv'
    \/ DropSend /\ LiveEnv'
    \/ DropJoin
    \/ Tick /\ LiveEnv'
    \/ ClockPulse
    \/ ClockWait
    \/ ClockBlock
    \/ ClockRecvTimeout
    \/ ClockTimeout
    \/ ClockRecv

\* The clock domain with a thread that is scheduled whenever it can take a
\* step, and a clock that advances.
SpecClockFair ==
    /\ InitClock
    /\ [][NextClockLive]_vars
    /\ WF_vars(ClockThread)
    /\ WF_vars(Tick /\ LiveEnv')

\* The rates the owner asks for when the interval is examined: the ends of
\* the admissible range, their neighbours inside and outside, and a NaN.
RateInputs ==
    {F(MIN_BPM - 1), F(MIN_BPM), F(MIN_BPM + 1), F(MAX_BPM - 1), F(MAX_BPM),
     F(MAX_BPM + 1), NaN}

\* MidiClock::set_bpm with a rate of RateInputs.
SetBpmProbe == \E raw \in RateInputs : send_command(SetBpm(sanitize_bpm(raw)))

NextRate ==
    \/ SetBpmProbe
    \/ ClockBlock
    \/ ClockRecv

\* The clock is built and its rate is set again and again while it is idle.
SpecRate == InitClock /\ [][NextRate]_vars

\* ======================================================================
\* TapTempo
\* ======================================================================
\* At most MaxTaps calls of add_tap are followed between two resets.
MaxTaps == 6

\* new(taps_needed, reset_gap) as main.rs:47 and the tests call it; both
\* asserts of lines 27-31 hold.
TapConfigs ==
    {[taps_needed |-> 4, reset_gap |-> 2000],
     [taps_needed |-> 3, reset_gap |-> 1000]}

\* An f64 of this domain is a quotient of whole numbers in lowest terms.
RECURSIVE GCD(_, _)
GCD(a, b) == IF b = 0 THEN a ELSE GCD(b, a % b)

Q(n, d) == [num |-> n \div GCD(n, d), den |-> d \div GCD(n, d)]

None == [bpm |-> Q(0, 1), some |-> FALSE]
Some(q) == [bpm |-> q, some |-> TRUE]

\* Mutant: no gap is long enough to start over.
gap_exceeded_never(timestamp, lst, gap) == FALSE

\* `timestamp_sec - last > self.reset_gap` of line 46.
gap_exceeded(timestamp, lst, gap) == timestamp - lst > gap

\* Mutant: the sum of the gaps is divided by the number of taps.
avg_divisor_len(len) == len

\* `(self.taps.len() - 1) as f64` of line 62.
avg_divisor(len) == len - 1

\* The loop of lines 57-60 over taps.windows(2), from window i on.
RECURSIVE windows_sum(_, _)
windows_sum(ts, i) ==
    IF i >= Len(ts) THEN 0 ELSE (ts[i + 1] - ts[i]) + windows_sum(ts, i + 1)

\* Mutant: the taps are cleared only when an estimate is returned.
taps_after_estimate_on_some(pushed, positive) ==
    IF positive THEN <<>> ELSE pushed

\* `self.taps.clear()` of line 63, before the test of the mean at line 65.
taps_after_estimate(pushed, positive) == <<>>

\* add_tap (lines 44-70): the taps it leaves and the value it returns.  The
\* timestamps are milliseconds, so avg_interval, in seconds, is
\* sum / (1000 * divisor) and 60.0 / avg_interval is 60000 * divisor / sum.
add_tap(needed, gap, held, timestamp) ==
    LET kept == IF held # <<>> /\ gap_exceeded(timestamp, held[Len(held)], gap)
                  THEN <<>>
                  ELSE held
        pushed == Append(kept, timestamp)
        sum == windows_sum(pushed, 1)
        avg_interval == [num |-> sum, den |-> 1000 * avg_divisor(Len(pushed))]
    IN  IF Len(pushed) < needed
          THEN [taps |-> pushed, ret |-> None]
          ELSE [taps |-> taps_after_estimate(pushed, avg_interval.num > 0),
                ret |-> IF avg_interval.num > 0
                          THEN Some(Q(60 * avg_interval.den, avg_interval.num))
                          ELSE None]

\* TapTempo::new
TapNew ==
    /\ \E c \in TapConfigs :
         /\ taps_needed = c.taps_needed
         /\ reset_gap = c.reset_gap
    /\ taps = <<>>
    /\ tap_times = <<>>
    /\ tap_rets = <<>>

\* The timestamps of the next call: 0 for the first, then the one before
\* plus half a second, plus nothing, minus half a second, plus reset_gap or
\* plus half a second more than reset_gap.
TapInputs ==
    IF tap_times = <<>>
      THEN {0}
      ELSE {tap_times[Len(tap_times)] + g :
               g \in {-500, 0, 500, reset_gap, reset_gap + 500}}

\* One call of add_tap.
AddTap ==
    /\ Len(tap_times) < MaxTaps
    /\ \E timestamp \in TapInputs :
         LET r == add_tap(taps_needed, reset_gap, taps, timestamp)
         IN  /\ taps' = r.taps
             /\ tap_times' = Append(tap_times, timestamp)
             /\ tap_rets' = Append(tap_rets, r.ret)
    /\ UNCHANGED <<taps_needed, reset_gap>>
    /\ UNCHANGED <<ctlVars, clkVars>>

\* reset (lines 73-75); the observation starts over with the empty TapTempo.
TapReset ==
    /\ tap_times # <<>>
    /\ taps' = <<>>
    /\ tap_times' = <<>>
    /\ tap_rets' = <<>>
    /\ UNCHANGED <<taps_needed, reset_gap>>
    /\ UNCHANGED <<ctlVars, clkVars>>

NextTap ==
    \/ AddTap
    \/ TapReset

InitTap == InitCtl /\ ClockAbsent /\ TapNew

SpecTap == InitTap /\ [][NextTap]_vars

\* ======================================================================
\* Properties of the poll domain
\* ======================================================================
FullPoll == poll.op = "poll_once" /\ poll.read = "full"
AllRegistered ==
    /\ poll.cbs.button # "None"
    /\ poll.cbs.encoder # "None"
    /\ poll.cbs.pot # "None"
AllFrame == FrameOf(128, 17, 33, 7)

\* The events of the last poll of category cat with id `id`.
EventsOf(cat, id) ==
    SelectSeq(poll.events, LAMBDA e : e.cat = cat /\ e.id = id)

\* C1: the first poll_once that reads a full frame after connect invokes no
\* handler whatever the frame holds; the decoded snapshot becomes last_state,
\* the buffer is taken as dirty and the bulk LED write is attempted.
C1_BaselineSilent ==
    (FullPoll /\ poll.nth = 1) =>
        /\ poll.events = <<>>
        /\ last_state = from_buf(poll.frame)
        /\ initialized
        /\ poll.dirty_at_flush
        /\ poll.flush.wrote
        /\ poll.written = <<leds>>

C1_Witness ==
    /\ FullPoll /\ poll.nth = 1
    /\ poll.frame = AllFrame
    /\ AllRegistered
    /\ poll.events = <<>>

\* C2: on every full frame after the baseline, with a handler registered for
\* each category, a field has an event iff its value differs from the one of
\* the previous full frame's snapshot, and then exactly one: a ButtonEvent
\* Pressed on false->true and Released on true->false, an EncoderEvent or a
\* PotEvent carrying the new and the previous value.
C2_EventIffChanged ==
    (FullPoll /\ poll.nth = 2 /\ AllRegistered) =>
        /\ \A i \in 1..Len(ButtonId) :
             LET f == ButtonFields[i]
                 es == EventsOf("button", ButtonId[i])
             IN IF last_state[f] = poll.old[f]
                  THEN es = <<>>
                  ELSE /\ Len(es) = 1
                       /\ es[1].kind = IF last_state[f] THEN "Pressed"
                                                        ELSE "Released"
        /\ \A i \in 1..Len(EncoderId) :
             LET f == EncoderFields[i]
                 es == EventsOf("encoder", EncoderId[i])
             IN IF last_state[f] = poll.old[f]
                  THEN es = <<>>
                  ELSE /\ Len(es) = 1
                       /\ es[1].value = last_state[f]
                       /\ es[1].previous = poll.old[f]
        /\ \A i \in 1..Len(PotId) :
             LET f == PotFields[i]
                 es == EventsOf("pot", PotId[i])
             IN IF last_state[f] = poll.old[f]
                  THEN es = <<>>
                  ELSE /\ Len(es) = 1
                       /\ es[1].value = last_state[f]
                       /\ es[1].previous = poll.old[f]
        /\ (last_state = poll.old => poll.events = <<>>)

\* Exactly one button differs between the two snapshots, and it was released.
C2_Witness ==
    /\ FullPoll /\ poll.nth = 2 /\ AllRegistered
    /\ Cardinality({i \in 1..Len(ButtonId) :
                       last_state[ButtonFields[i]] # poll.old[ButtonFields[i]]}) = 1
    /\ Len(poll.events) = 1
    /\ poll.events[1].cat = "button"
    /\ poll.events[1].kind = "Released"

\* The place of an event in the fixed order: the buttons in ButtonId order,
\* then the encoders in EncoderId order, then the pots in PotId order.
IndexIn(seq, x) == CHOOSE i \in 1..Len(seq) : seq[i] = x
Rank(e) ==
    CASE e.cat = "button"  -> IndexIn(ButtonId, e.id)
      [] e.cat = "encoder" -> Len(ButtonId) + IndexIn(EncoderId, e.id)
      [] e.cat = "pot"     -> Len(ButtonId) + Len(EncoderId) + IndexIn(PotId, e.id)

\* C3: the handler invocations of one poll cycle are in the fixed order,
\* whichever fields changed: buttons in ButtonId declaration order, then
\* encoders in EncoderId order, then pots in PotId order.
C3_FixedOrder ==
    FullPoll =>
        \A i, j \in 1..Len(poll.events) :
            i < j => Rank(poll.events[i]) < Rank(poll.events[j])

C3_Witness ==
    /\ FullPoll
    /\ Len(SelectSeq(poll.events, LAMBDA e : e.cat = "button")) >= 2
    /\ Len(SelectSeq(poll.events, LAMBDA e : e.cat = "encoder")) >= 2
    /\ Len(SelectSeq(poll.events, LAMBDA e : e.cat = "pot")) >= 1

\* C4: every event of a cycle carries the shift value of the new snapshot,
\* also when shift changes in the same frame as the event's field.
C4_ModifiersFromNew ==
    FullPoll =>
        \A i \in 1..Len(poll.events) :
            poll.events[i].modifiers.shift = last_state.button_shift

\* Shift changed in this frame, and an event was dispatched before Shift's.
C4_Witness ==
    /\ FullPoll
    /\ last_state.button_shift # poll.old.button_shift
    /\ Len(poll.events) >= 2
    /\ poll.events[1].id = "Deck2On"
    /\ poll.events[2].id = "Shift"

\* C9 as stated: a bulk LED write happens only when the dirty flag is true,
\* and two consecutive flushes with no in-range set between them perform at
\* most one hardware write.
C9_AtMostOneWrite ==
    /\ FullPoll => (poll.flush.wrote => poll.dirty_at_flush)
    /\ (fl.n = 2 /\ ~fl.setBetween) => ~(fl.prev # "none" /\ fl.cur # "none")

\* C9 amended: a bulk LED write happens only when the dirty flag is true, and
\* of two consecutive flushes with no in-range set between them the second
\* writes only when the write of the first failed; at most one write succeeds.
C9_RetryOnlyAfterFailure ==
    /\ FullPoll => (poll.flush.wrote => poll.dirty_at_flush)
    /\ (fl.n = 2 /\ ~fl.setBetween) => (fl.cur # "none" => fl.prev = "fail")

C9_Witness ==
    /\ fl.n = 2 /\ ~fl.setBetween
    /\ fl.prev = "fail"
    /\ fl.cur = "ok"

\* C10: after a flush of a dirty buffer the dirty flag is false iff the bulk
\* write succeeded, whatever the read of the acknowledgment returned.
C10_DirtyIffWriteFailed ==
    (FullPoll /\ poll.dirty_at_flush) =>
        /\ poll.flush.wrote
        /\ leds_dirty = ~poll.flush.ok

C10_Witness ==
    /\ FullPoll /\ poll.dirty_at_flush
    /\ poll.flush.ok /\ poll.flush.ack = "Err"
    /\ ~leds_dirty

\* C11: while the latest bulk LED write is one that failed, every poll cycle
\* that returns Ok attempts the bulk write again, whether or not its read
\* brought a full frame.
C11_RetryEveryCycle ==
    (poll.op = "poll_once" /\ poll.ret = "Ok" /\ fl.cur = "fail") =>
        poll.flush.wrote

\* The indices and values the LED sets are tried with at every state.
LedIdxProbe == {0, TAP_LED_INDEX, LED_COUNT - 1, LED_COUNT, LED_COUNT + 1}
LedValueProbe == {0, LED_DIM, LED_BRIGHT}
\* What a set of slot idx to value must make of the buffer b and the flag d.
SetEffect(h, b, d, idx, value) ==
    IF idx \in 0..(LED_COUNT - 1)
      THEN /\ h.leds[idx] = value
           /\ h.dirty
           /\ \A j \in 0..(LED_COUNT - 1) : j # idx => h.leds[j] = b[j]
           /\ DOMAIN h.leds = DOMAIN b
      ELSE /\ h.leds = b
           /\ h.dirty = d

\* C12: X1Controller::set_led_raw and LedHandle::set_raw with an index in
\* 0..31 overwrite exactly that slot and set the dirty flag, also when the
\* value is the one the slot holds; with an index of 32 or more they change
\* neither a slot nor the flag.
C12_SetWritesOneSlot ==
    \A idx \in LedIdxProbe, value \in LedValueProbe :
        LET h0 == [leds |-> leds, dirty |-> leds_dirty, sets |-> 0]
        IN /\ SetEffect(set_led_raw(h0, idx, value), leds, leds_dirty, idx, value)
           /\ SetEffect(LedHandle_set_raw(h0, idx, value), leds, leds_dirty,
                        idx, value)

\* The buffer is clean (a flush wrote it) and a slot holds the value a set
\* gave it: a set of that value again must mark the buffer dirty, a set out
\* of range must not.
C12_Witness ==
    /\ ~leds_dirty
    /\ leds[TAP_LED_INDEX] = LED_BRIGHT
    /\ fl.n >= 1
    /\ poll.op = "other"

\* The step is a poll_once that returned an error.
PollFailed == poll'.op = "poll_once" /\ poll'.ret = "Err" /\ poll' # poll

\* C20: poll_once returns an error iff the read of the input frame failed
\* with an error that is not a timeout, and then no handler ran, no LED write
\* was attempted and last_state, the LED buffer and the dirty flag are as
\* before; a timeout, a short read, a failed LED write and a failed read of
\* the acknowledgment return Ok.
C20_ErrIffReadError ==
    /\ [](poll.op = "poll_once" =>
            /\ poll.ret = "Err" <=> poll.read = "error"
            /\ poll.ret = "Err" => (poll.events = <<>> /\ ~poll.flush.wrote)
            /\ poll.read \in {"timeout", "short"} => poll.ret = "Ok"
            /\ poll.read = "full" => poll.ret = "Ok")
    /\ [][PollFailed =>
            /\ last_state' = last_state
            /\ leds' = leds
            /\ leds_dirty' = leds_dirty
            /\ initialized' = initialized]_vars

\* An error of the read with a dirty buffer waiting, and before that a poll
\* whose LED write failed and returned Ok all the same.
C20_Witness ==
    /\ poll.op = "poll_once"
    /\ poll.read = "error"
    /\ poll.ret = "Err"
    /\ leds_dirty
    /\ initialized
    /\ fl.cur = "fail"

\* C21: a poll_once whose read timed out or was short runs no handler and
\* leaves last_state, initialized, the LED buffer and the dirty flag as they
\* were; the next full frame is diffed against last_state (see C2).
C21_NoNewData ==
    [][(poll'.op = "poll_once" /\ poll'.read \in {"timeout", "short"}) =>
         /\ poll'.events = <<>>
         /\ poll'.ret = "Ok"
         /\ last_state' = last_state
         /\ initialized' = initialized
         /\ leds' = leds
         /\ leds_dirty' = leds_dirty]_vars

\* A short read after a frame with controls set, with a dirty buffer.
C21_Witness ==
    /\ poll.op = "poll_once"
    /\ poll.read = "short"
    /\ initialized
    /\ last_state = from_buf(AllFrame)
    /\ leds_dirty

\* The button fields of a snapshot, in ButtonFields order.
ButtonsOf(st) == [i \in 1..Len(ButtonFields) |-> st[ButtonFields[i]]]
\* The frame with every byte outside lo..hi cleared.
KeepBytes(frame, lo, hi) ==
    [i \in DOMAIN frame |-> IF i \in lo..hi THEN frame[i] ELSE 0]

\* C24 as stated: the button fields are decoded from bytes 1 to 4 of the
\* frame: clearing every other byte leaves them as they are.
C24_ButtonsInBytes1To4 ==
    poll.op = "from_buf" =>
        ButtonsOf(from_buf(KeepBytes(poll.frame, 1, 4))) = ButtonsOf(last_state)

\* C24 amended: the button fields are decoded from bytes 1 to 5 of the frame:
\* clearing every other byte leaves them as they are, a bit of bytes 1 to 5
\* sets one button at most and a bit of byte 5 sets one.
C24_ButtonsInBytes1To5 ==
    poll.op = "from_buf" =>
        /\ ButtonsOf(from_buf(KeepBytes(poll.frame, 1, 5))) = ButtonsOf(last_state)
        /\ Cardinality({i \in 1..Len(ButtonFields) :
                           last_state[ButtonFields[i]]}) <= 1
        /\ poll.frame[5] # 0 =>
             Cardinality({i \in 1..Len(ButtonFields) :
                             last_state[ButtonFields[i]]}) = 1

\* Bit 4 of byte 5 alone: Shift.
C24_Witness ==
    /\ poll.op = "from_buf"
    /\ poll.frame[5] = 16
    /\ last_state.button_shift

\* The physical slot of each named pot, in PotId order.
PotSlots == <<4, 6, 7, 5, 2, 1, 0, 3>>

\* C25: physical pot i is the big-endian value of bytes 8+2i and 9+2i; the
\* named pots take the slots 4, 6, 7, 5, 2, 1, 0, 3 in PotId order, which is
\* a permutation of 0..7 other than the identity; as many named pots differ
\* from zero as physical slots do.
C25_PotPermutation ==
    poll.op = "from_buf" =>
        /\ \A i \in 0..7 :
             last_state.pots[i]
               = poll.frame[8 + 2 * i] * 256 + poll.frame[9 + 2 * i]
        /\ \A j \in 1..Len(PotFields) :
             last_state[PotFields[j]] = last_state.pots[PotSlots[j]]
        /\ {PotSlots[j] : j \in 1..Len(PotSlots)} = 0..7
        /\ \E j \in 1..Len(PotSlots) : PotSlots[j] # j - 1
        /\ Cardinality({j \in 1..Len(PotFields) : last_state[PotFields[j]] # 0})
             = Cardinality({i \in 0..7 : last_state.pots[i] # 0})

\* Bit 0 of byte 8, the high byte of physical slot 0, alone: Deck2_2 is 256.
C25_Witness ==
    /\ poll.op = "from_buf"
    /\ poll.frame[8] = 1
    /\ last_state.pot_deck2_2 = 256
    /\ last_state.pots[0] = 256

\* The button events of the last poll.
ButtonEvents == SelectSeq(poll.events, LAMBDA e : e.cat = "button")

\* C28: a poll_once does one bulk LED write at most; on a full frame it is
\* the 32 bytes of the buffer as the handlers of the cycle left it, so a
\* slot a handler set in the cycle is in the write of that cycle; an
\* operation that is not a poll_once on a full frame writes nothing.
C28_OneWriteAfterHandlers ==
    /\ Len(poll.written) <= 1
    /\ poll.flush.wrote <=> Len(poll.written) = 1
    /\ ~FullPoll => poll.written = <<>>
    /\ (FullPoll /\ poll.flush.wrote) =>
          /\ poll.written[1] = leds
          /\ DOMAIN poll.written[1] = 0..(LED_COUNT - 1)
    /\ (FullPoll /\ poll.cbs.button = "Led" /\ ButtonEvents # <<>>) =>
          /\ poll.flush.wrote
          /\ poll.written[1][TAP_LED_INDEX]
               = IF ButtonEvents[Len(ButtonEvents)].kind = "Pressed"
                   THEN LED_BRIGHT ELSE LED_DIM

\* The handler set the tap LED bright in a cycle that began with a clean
\* buffer holding it dim, and the write of the cycle carries it.
C28_Witness ==
    /\ FullPoll
    /\ poll.nth = 2
    /\ poll.cbs.button = "Led"
    /\ Len(ButtonEvents) >= 2
    /\ ButtonEvents[Len(ButtonEvents)].kind = "Pressed"
    /\ poll.flush.ok
    /\ poll.written[1][TAP_LED_INDEX] = LED_BRIGHT

\* ======================================================================
\* Properties of the clock domain
\* ======================================================================
\* How many times byte b was handed to send_byte.
SentCount(b) == Cardinality({i \in 1..Len(sent) : sent[i].byte = b})
AllSendsOk == \A i \in 1..Len(sent) : sent[i].ok
\* start() and stop() were called, in that order and nothing else, the thread
\* received both, and no time has passed since the construction: no interval
\* of tick_duration has elapsed.  The bpm is a number.
StartThenStopAtOnce ==
    /\ issued = <<Start, Stop>>
    /\ chan = <<>>
    /\ now = 0
    /\ AllSendsOk
    /\ ~bpm.nan

\* C5: Start and, at once, Stop: the thread sends exactly one start byte,
\* exactly one stop byte and no pulse byte.
C5_StartStopNoPulse ==
    StartThenStopAtOnce =>
        /\ SentCount(START_BYTE) = 1
        /\ SentCount(STOP_BYTE) = 1
        /\ SentCount(CLOCK_BYTE) = 0

\* The thread takes Shutdown off the channel in this step.
TakesShutdown ==
    /\ pc # "closed"
    /\ chan # <<>>
    /\ Head(chan) = Shutdown
    /\ chan' = Tail(chan)

\* C6: the step that processes Shutdown hands exactly one stop byte to
\* send_byte when the clock is running and no byte when it is not, and
\* leaves the loop.
C6_ShutdownStopByte ==
    [][TakesShutdown =>
         /\ pc' = "closed"
         /\ IF running
              THEN \E ok \in SendOutcomes :
                     sent' = Append(sent, [byte |-> STOP_BYTE, ok |-> ok])
              ELSE sent' = sent]_vars

C6_Witness ==
    /\ last.step = "cmd"
    /\ last.cmd = "Shutdown"
    /\ last.was_running
    /\ pc = "closed"
    /\ sent # <<>>
    /\ sent[Len(sent)].byte = STOP_BYTE
    /\ SentCount(STOP_BYTE) = 1

\* C7: a pulse that was sent moves next_tick to its previous value plus
\* tick_duration whatever the time is; while running next_tick is the anchor
\* (set by Start or SetBpm) plus one tick_duration per pulse sent since; and
\* when the thread goes to wait, the pulses sent since the anchor are as many
\* as the deadlines anchor, anchor + tick_duration, ... that have elapsed.
C7_DeadlineAnchored ==
    /\ (last.step = "pulse" /\ last.ok) =>
           next_tick = last.prev_tick + tick_duration
    /\ running => next_tick = anchor + pulses * tick_duration
    /\ (running /\ pc = "recv_timeout") =>
           /\ clk_now < anchor + pulses * tick_duration
           /\ pulses > 0 => anchor + (pulses - 1) * tick_duration <= clk_now

\* The thread was late by more than two intervals: it has sent two pulses back
\* to back and the deadline of a third has elapsed as well.
C7_Witness ==
    /\ last.step = "pulse"
    /\ last.ok
    /\ running
    /\ pulses >= 2
    /\ tick_duration > 1
    /\ clk_now > anchor
    /\ next_tick <= clk_now

\* C8: the bpm the thread holds is within [MIN_BPM, MAX_BPM].
C8_BpmInRange ==
    /\ ~bpm.nan
    /\ bpm.v >= MIN_BPM
    /\ bpm.v <= MAX_BPM

\* The thread takes the command at the head of the channel in this step.
TakesStart ==
    /\ pc # "closed" /\ chan # <<>> /\ Head(chan) = Start /\ chan' = Tail(chan)
TakesStop ==
    /\ pc # "closed" /\ chan # <<>> /\ Head(chan) = Stop /\ chan' = Tail(chan)
TakesSetBpm ==
    /\ pc # "closed" /\ chan # <<>> /\ Head(chan).cmd = "SetBpm"
    /\ chan' = Tail(chan)
\* The byte handed to send_byte in this step, if it is byte b with outcome ok.
Sends(b, ok) == sent' = Append(sent, [byte |-> b, ok |-> ok])

\* C13: the step that processes Start hands one start byte to send_byte; when
\* it was sent the clock is running and next_tick is the time of the step plus
\* tick_duration, when it was not the clock is not running.
C13_StartDeadline ==
    [][TakesStart =>
         \/ Sends(START_BYTE, TRUE) /\ running'
              /\ next_tick' = now + tick_duration
         \/ Sends(START_BYTE, FALSE) /\ ~running']_vars

\* Between a stop byte and a later pulse there is a start byte that was sent.
NoPulseAfterStop ==
    \A i, j \in 1..Len(sent) :
        (i < j /\ sent[i].byte = STOP_BYTE /\ sent[j].byte = CLOCK_BYTE) =>
            \E k \in (i + 1)..(j - 1) : sent[k].byte = START_BYTE /\ sent[k].ok

\* C14: the step that processes Stop, running or not, hands exactly one stop
\* byte to send_byte and leaves the clock not running whatever the send
\* returned, without leaving the loop; no pulse follows a stop byte unless a
\* start byte was sent in between.
C14_StopAlwaysStops ==
    /\ [][TakesStop =>
            /\ \E ok \in SendOutcomes : Sends(STOP_BYTE, ok)
            /\ ~running'
            /\ pc' = "top"]_vars
    /\ []NoPulseAfterStop

\* Stop was processed while running, its byte was not sent, and the thread
\* has gone on to block in recv.
C14_Witness ==
    /\ last.step = "block"
    /\ ~running
    /\ pc = "recv"
    /\ Len(sent) >= 2
    /\ sent[Len(sent)] = [byte |-> STOP_BYTE, ok |-> FALSE]
    /\ sent[Len(sent) - 1].byte = CLOCK_BYTE

\* C15: the step that processes SetBpm takes the bpm of the command and the
\* tick_duration it gives, sends no byte and leaves `running` alone; when
\* running next_tick becomes the time of the step plus the new tick_duration,
\* when not running next_tick is left alone.
C15_SetBpmReanchors ==
    [][TakesSetBpm =>
         /\ bpm' = Head(chan).bpm
         /\ tick_duration' = duration_from_bpm(Head(chan).bpm)
         /\ sent' = sent
         /\ running' = running
         /\ pc' = "top"
         /\ next_tick' = IF running THEN now + tick_duration' ELSE next_tick]_vars

\* SetBpm was processed while running, after a pulse and some time: the
\* deadline it found was not the one it set.
C15_Witness ==
    /\ last.step = "cmd"
    /\ last.cmd = "SetBpm"
    /\ last.was_running
    /\ running
    /\ bpm = F(MAX_BPM)
    /\ tick_duration = duration_from_bpm(F(MAX_BPM))
    /\ last.prev_tick > 0
    /\ next_tick > last.prev_tick
    /\ next_tick # last.prev_tick + tick_duration

\* The step is a pulse whose send failed.
PulseFails == Sends(CLOCK_BYTE, FALSE)

\* C16: a pulse whose send fails leaves the clock not running, bpm,
\* tick_duration and next_tick as they were, and the thread in its loop.
C16_PulseFailureIdles ==
    [][PulseFails =>
         /\ ~running'
         /\ bpm' = bpm
         /\ tick_duration' = tick_duration
         /\ next_tick' = next_tick
         /\ pc' = "top"]_vars

\* After a pulse that failed a Start was processed and a pulse was sent, at
\* the bpm the clock was built with.
C16_Witness ==
    /\ bpm = F(120)
    /\ tick_duration = duration_from_bpm(F(120))
    /\ \E i, j, k \in 1..Len(sent) :
         /\ i < j /\ j < k
         /\ sent[i] = [byte |-> CLOCK_BYTE, ok |-> FALSE]
         /\ sent[j] = [byte |-> START_BYTE, ok |-> TRUE]
         /\ sent[k] = [byte |-> CLOCK_BYTE, ok |-> TRUE]

\* C17: the thread has left its loop only by the arm of Shutdown or by
\* finding every Sender gone; after any other step it is in the loop.
C17_ExitOnlyByShutdown ==
    /\ pc = "closed" =>
         \/ last.step = "cmd" /\ last.cmd = "Shutdown"
         \/ last.step = "disconnected" /\ senders = 0
    /\ (last.step \in {"pulse", "wait", "block", "timeout"}
          \/ (last.step = "cmd" /\ last.cmd # "Shutdown")) => pc # "closed"

\* The thread has processed Start, a pulse that failed, Stop with a stop byte
\* that failed, and is in its loop still.
C17_Witness ==
    /\ pc = "recv"
    /\ last.step = "block"
    /\ Len(sent) >= 3
    /\ sent[1] = [byte |-> START_BYTE, ok |-> TRUE]
    /\ sent[2] = [byte |-> CLOCK_BYTE, ok |-> FALSE]
    /\ sent[3] = [byte |-> STOP_BYTE, ok |-> FALSE]

\* C18: inside drop Shutdown is the last command of the channel until the
\* thread takes it; once drop has returned the thread has left its loop by
\* Shutdown with every earlier command taken, and when it was running then
\* the stop byte was the last byte handed to send_byte.
C18_DropJoinsThread ==
    /\ (owner = "joining" /\ pc # "closed") =>
          /\ chan # <<>>
          /\ chan[Len(chan)] = Shutdown
          /\ \A i \in 1..(Len(chan) - 1) : chan[i] # Shutdown
    /\ owner = "dropped" =>
          /\ pc = "closed"
          /\ chan = <<>>
          /\ issued[Len(issued)] = Shutdown
          /\ last.step = "cmd" /\ last.cmd = "Shutdown"
          /\ last.was_running =>
                /\ sent # <<>>
                /\ sent[Len(sent)].byte = STOP_BYTE

\* drop has returned; Start and a rate change were sent before it and the
\* clock was running when Shutdown was taken.
C18_Witness ==
    /\ owner = "dropped"
    /\ Len(issued) = 3
    /\ issued[1] = Start
    /\ issued[2].cmd = "SetBpm"
    /\ last.was_running
    /\ sent[Len(sent)].byte = STOP_BYTE

\* The thread owes a pulse and the bound on the bytes that are recorded is
\* reached: the model follows the catch-up of lines 148-163 no further.
PulseBoundReached ==
    /\ pc = "top"
    /\ running
    /\ now >= next_tick
    /\ Len(sent) >= MaxSent

FloorOfMinuteOver(q, d) ==
    LET qh == q \div 10000
        ql == q % 10000
        high == SECONDS_PER_MINUTE * (NANOS_PER_SECOND \div 10000) - qh * d
    IN  /\ high >= 0
        /\ high <= 10000
        /\ high * 10000 - ql * d >= 0
        /\ high * 10000 - ql * d < d

SendsPulse == \E ok \in SendOutcomes : Sends(CLOCK_BYTE, ok)

\* C23: a pulse byte is handed to send_byte only by a step taken at the head
\* of the loop while running with the time at or past next_tick.  The thread
\* waits with a timeout only while running.  While not running a step from
\* the head of the loop sends nothing, takes no command and enters recv, and
\* recv is left only with a command (or with every Sender gone).
C23_PulseOnlyWhenDue ==
    /\ [][SendsPulse => (pc = "top" /\ running /\ now >= next_tick)]_vars
    /\ [](pc = "recv_timeout" => running)
    /\ [](pc = "recv" => ~running)
    /\ [][(~running /\ pc = "top") =>
            /\ sent' = sent
            /\ running' = running
            /\ Len(chan') >= Len(chan)
            /\ pc' \in {"top", "recv"}]_vars
    /\ [][(pc = "recv" /\ (pc' # "recv" \/ sent' # sent)) =>
            \/ chan # <<>> /\ chan' = Tail(chan)
            \/ senders = 0]_vars

\* A pulse was sent at its deadline or later, then one failed, and the thread
\* blocks in recv while time has passed.
C23_Witness ==
    /\ pc = "recv"
    /\ ~running
    /\ last.step = "block"
    /\ Len(sent) >= 3
    /\ sent[Len(sent) - 1] = [byte |-> CLOCK_BYTE, ok |-> TRUE]
    /\ sent[Len(sent)] = [byte |-> CLOCK_BYTE, ok |-> FALSE]
    /\ now > next_tick

\* The thread takes the command at the head of the channel in this step.
TakesCommand == pc # "closed" /\ chan # <<>> /\ chan' = Tail(chan)

\* C29: at the head of the loop with a pulse due the thread takes no command
\* and leaves the head only by failing to send; a command is taken while
\* running only in a wait entered with the time read before next_tick; the
\* channel holds the commands sent and not yet taken in the order they were
\* sent, and the one taken is the oldest.
C29_CatchUpBeforeCommands ==
    /\ [][(pc = "top" /\ running /\ now >= next_tick) =>
            /\ Len(chan') >= Len(chan)
            /\ (pc' # pc \/ running' # running \/ sent' # sent) =>
                 SendsPulse /\ pc' = "top"]_vars
    /\ [][(TakesCommand /\ running) =>
            (pc = "recv_timeout" /\ clk_now < next_tick)]_vars
    /\ [](pc # "closed" =>
            /\ Len(chan) <= Len(issued)
            /\ chan = SubSeq(issued, Len(issued) - Len(chan) + 1, Len(issued)))
    /\ [][Len(chan') < Len(chan) =>
            (chan' = Tail(chan) /\ last'.cmd = Head(chan).cmd)]_vars

\* Two pulses were sent back to back, a third is due, and a Stop sent after
\* the Start is still in the channel.
C29_Witness ==
    /\ pc = "top"
    /\ running
    /\ last.step = "pulse"
    /\ last.ok
    /\ pulses >= 2
    /\ now >= next_tick
    /\ chan = <<Stop>>
    /\ Len(sent) < MaxSent

\* C30: the step that takes Start while running hands a start byte to
\* send_byte; when it was sent the clock is running still and next_tick is
\* the time of the step, when it was not the clock is not running.
C30_StartWhileRunning ==
    [][(TakesStart /\ running) =>
         \/ Sends(START_BYTE, TRUE) /\ running' /\ next_tick' = now
                /\ pc' = "top"
         \/ Sends(START_BYTE, FALSE) /\ ~running' /\ next_tick' = next_tick
                /\ pc' = "top"]_vars

\* A second Start was taken while running, after a pulse and some time: two
\* start bytes were sent and the deadline is not the one the step found.
C30_Witness ==
    /\ last.step = "cmd"
    /\ last.cmd = "Start"
    /\ last.was_running
    /\ last.ok
    /\ running
    /\ SentCount(START_BYTE) = 2
    /\ SentCount(CLOCK_BYTE) >= 1
    /\ next_tick = now
    /\ next_tick # last.prev_tick

\* ======================================================================
\* Properties of the tap-tempo estimator
\* ======================================================================
\* The gap between call j and the call before it.
TapGap(j) == tap_times[j] - tap_times[j - 1]

\* The first taps_needed calls had strictly increasing timestamps, none more
\* than reset_gap after the one before.
SteadyRun ==
    /\ Len(tap_times) >= taps_needed
    /\ \A j \in 2..taps_needed : TapGap(j) > 0 /\ TapGap(j) <= reset_gap

\* C26: when the first taps_needed taps given to an empty TapTempo have
\* strictly increasing timestamps with no gap above reset_gap, the calls
\* before the last return None and the last returns Some(bpm) with
\* bpm = 60 * (taps_needed - 1) / (t_last - t_first); four taps half a second
\* apart give 120.
C26_SteadyTapsGiveBpm ==
    /\ SteadyRun =>
          /\ \A j \in 1..(taps_needed - 1) : tap_rets[j] = None
          /\ tap_rets[taps_needed] =
                Some(Q(60000 * (taps_needed - 1),
                       tap_times[taps_needed] - tap_times[1]))
    /\ (taps_needed = 4 /\ Len(tap_times) >= 4
          /\ SubSeq(tap_times, 1, 4) = <<0, 500, 1000, 1500>>) =>
          tap_rets[4] = Some([num |-> 120, den |-> 1])

\* Four taps half a second apart were given and the fourth returned 120.
C26_Witness ==
    /\ taps_needed = 4
    /\ tap_times = <<0, 500, 1000, 1500>>
    /\ tap_rets[4].some
    /\ tap_rets[4].bpm.num = 120
    /\ tap_rets[4].bpm.den = 1
    /\ taps = <<>>

\* C27: a call that returns an estimate is at least the taps_needed-th, the
\* taps_needed - 1 gaps that end at it are none above reset_gap, none of the
\* calls of these gaps before it returned an estimate, and the estimate is
\* 60 * (taps_needed - 1) over the time from the first of these taps to the
\* last; the taps held are the latest calls, fewer than taps_needed, with no
\* gap above reset_gap among them; and a call more than reset_gap after the
\* last tap held leaves its own timestamp as the only tap and returns None.
C27_GapDiscards ==
    /\ [](\A k \in 1..Len(tap_times) :
            tap_rets[k].some =>
              /\ k >= taps_needed
              /\ \A j \in (k - taps_needed + 2)..k : TapGap(j) <= reset_gap
              /\ \A j \in (k - taps_needed + 1)..(k - 1) : ~tap_rets[j].some
              /\ tap_rets[k].bpm =
                    Q(60000 * (taps_needed - 1),
                      tap_times[k] - tap_times[k - taps_needed + 1]))
    /\ [](/\ Len(taps) < taps_needed
          /\ Len(taps) <= Len(tap_times)
          /\ taps = SubSeq(tap_times, Len(tap_times) - Len(taps) + 1,
                           Len(tap_times))
          /\ \A j \in (Len(tap_times) - Len(taps) + 2)..Len(tap_times) :
                TapGap(j) <= reset_gap)
    /\ [][(taps # <<>> /\ Len(tap_times') = Len(tap_times) + 1
            /\ tap_times'[Len(tap_times')] - taps[Len(taps)] > reset_gap) =>
             /\ taps' = <<tap_times'[Len(tap_times')]>>
             /\ tap_rets'[Len(tap_rets')] = None]_vars

\* Two taps, a tap after more than reset_gap, and two more within it: the
\* fifth call returned the estimate of the last three.
C27_Witness ==
    /\ taps_needed = 3
    /\ Len(tap_times) = 5
    /\ TapGap(2) > 0
    /\ TapGap(2) <= reset_gap
    /\ TapGap(3) > reset_gap
    /\ ~tap_rets[3].some
    /\ ~tap_rets[4].some
    /\ tap_rets[5].some
    /\ tap_rets[5].bpm = Q(60000 * 2, tap_times[5] - tap_times[3])

\* The calls that returned an estimate.
Estimates == {k \in 1..Len(tap_rets) : tap_rets[k].some}

\* This step is a call of add_tap.
TapCall == Len(tap_times') = Len(tap_times) + 1

\* C33: fewer than taps_needed taps are held after every call; a call that
\* finds taps_needed - 1 taps and is not more than reset_gap after the last
\* of them leaves none, whatever it returns, and returns None when the last
\* tap is not after the first; two calls that return an estimate are at least
\* taps_needed calls apart, and the estimates are at most one per
\* taps_needed calls.
C33_HistoryBelowNeeded ==
    /\ [](Len(taps) < taps_needed)
    /\ [][(TapCall /\ Len(taps) = taps_needed - 1
            /\ tap_times'[Len(tap_times')] - taps[Len(taps)] <= reset_gap) =>
             /\ taps' = <<>>
             /\ tap_rets'[Len(tap_rets')].some <=>
                   tap_times'[Len(tap_times')] > taps[1]]_vars
    /\ [](\A j, k \in Estimates : j < k => k - j >= taps_needed)
    /\ [](Cardinality(Estimates) * taps_needed <= Len(tap_times))

\* The third of three taps was no later than the first and returned None; the
\* three taps after it gave an estimate.
C33_Witness ==
    /\ taps_needed = 3
    /\ Len(tap_times) = 6
    /\ tap_times[3] <= tap_times[1]
    /\ tap_times[3] - tap_times[2] <= reset_gap
    /\ tap_rets[3] = None
    /\ Estimates = {6}
    /\ taps = <<>>

\* ======================================================================
\* Properties of the button table
\* ======================================================================
\* The buttons (indices of ButtonFields) that are down in the snapshot of the
\* frame with the single bit p.
ButtonsAt == [p \in ButtonBits |->
                {i \in 1..Len(ButtonFields) :
                    ButtonsOf(from_buf(FrameWith({p})))[i]}]

\* The bits that some button is read from.
MappedBits == {p \in ButtonBits : ButtonsAt[p] # {}}

\* The bits in which two frames differ.
DiffBits(f, g) ==
    {p \in {k \in 0..(FRAME_LEN - 1) : f[k] # g[k]} \X (0..7) :
        ((f[p[1]] \div (2 ^ p[2])) % 2) # ((g[p[1]] \div (2 ^ p[2])) % 2)}

\* The fields in which two snapshots differ.
DiffFields(s, t) == {f \in DOMAIN s : s[f] # t[f]}

\* This step is a full poll after a full poll, and their frames differ in one
\* bit, which a button is read from.
OneButtonApart ==
    /\ initialized
    /\ FullPoll
    /\ FullPoll'
    /\ Cardinality(DiffBits(poll.frame, poll'.frame)) = 1
    /\ DiffBits(poll.frame, poll'.frame) \subseteq MappedBits

\* C31: every bit of the button bytes is read by one button at most and
\* every button is read from one bit, 34 bits in all; a poll whose frame
\* differs from the frame of the poll before in one of these bits changes one
\* field of the snapshot, the field of the button read from the bit, and
\* delivers one ButtonEvent, for that button, when a button handler is
\* registered.
C31_DistinctButtonBits ==
    /\ [](/\ \A p \in ButtonBits : Cardinality(ButtonsAt[p]) <= 1
          /\ \A i \in 1..Len(ButtonFields) :
                Cardinality({p \in ButtonBits : i \in ButtonsAt[p]}) = 1
          /\ Cardinality(MappedBits) = Len(ButtonFields)
          /\ Len(ButtonFields) = 34)
    /\ [][OneButtonApart =>
            \E p \in DiffBits(poll.frame, poll'.frame) :
            \E i \in ButtonsAt[p] :
              /\ DiffFields(last_state, last_state') = {ButtonFields[i]}
              /\ IF button_callback = "None"
                   THEN poll'.events = <<>>
                   ELSE /\ Len(poll'.events) = 1
                        /\ poll'.events[1].cat = "button"
                        /\ poll'.events[1].id = ButtonId[i]
                        /\ poll'.events[1].kind =
                              IF last_state'[ButtonFields[i]]
                                THEN "Pressed" ELSE "Released"]_vars

\* After the frame with byte 2 bit 7 alone the frame with no bit was polled,
\* with a handler: one event, the release of Deck2Sync.
C31_Witness ==
    /\ FullPoll
    /\ poll.frame = FrameWith({})
    /\ poll.old = from_buf(FrameWith({<<2, 7>>}))
    /\ poll.old.button_deck2_sync
    /\ poll.cbs.button # "None"
    /\ Len(poll.events) = 1
    /\ poll.events[1].id = "Deck2Sync"
    /\ poll.events[1].kind = "Released"

\* The events of the poll this step makes that are for button i.
EdgesOf(i) ==
    SelectSeq(poll'.events,
              LAMBDA e : e.cat = "button" /\ e.id = ButtonId[i])

\* C32: a step that is not a full poll leaves last_state alone and a full
\* poll leaves in it the snapshot of its frame; the first full poll delivers
\* nothing; a later one, with a button handler registered, delivers for each
\* button one event when the button's field differs from last_state, a press
\* when it was up there and a release when it was down, and no event when the
\* field is the same.  The events of a button are thus the changes of its
\* field along the frames read in full, press and release in turn.
C32_EdgesAlternate ==
    /\ [][~FullPoll' => last_state' = last_state]_vars
    /\ [][FullPoll' => last_state' = from_buf(poll'.frame)]_vars
    /\ [][(FullPoll' /\ ~initialized) => poll'.events = <<>>]_vars
    /\ [][(FullPoll' /\ initialized /\ button_callback # "None") =>
            \A i \in 1..Len(ButtonFields) :
               IF last_state'[ButtonFields[i]] # last_state[ButtonFields[i]]
                 THEN /\ Len(EdgesOf(i)) = 1
                      /\ EdgesOf(i)[1].kind =
                            IF last_state[ButtonFields[i]]
                              THEN "Released" ELSE "Pressed"
                 ELSE EdgesOf(i) = <<>>]_vars

\* Deck1Sync (byte 3 bit 7) was down in the frame read in full before, a
\* cycle or more later the frame with no bit is read: its release is
\* delivered.
C32_Witness ==
    /\ FullPoll
    /\ poll.nth = 2
    /\ poll.cbs.button # "None"
    /\ poll.old.button_deck1_sync
    /\ ~last_state.button_deck1_sync
    /\ poll.events # <<>>
    /\ poll.events[1].id = "Deck1Sync"
    /\ poll.events[1].kind = "Released"

====
